---- MODULE Spec2Model ----
(***************************************************************************)
(* A model of server.py, the grammar-checker backend: the prompt builder,  *)
(* the reconciliation of the language model's reply, the transcription     *)
(* adapter, the audit log and the two evaluation routes.                   *)
(*                                                                         *)
(* Text is modelled as a sequence of tokens (each token a TLA+ string):    *)
(* a reply such as  Sure {"score": 90}  is <<"Sure"," ","{","\"score\"",   *)
(* ":"," ","90","}">>.  A token is one lexeme: a brace, a colon, a comma, *)
(* a whitespace character, a string literal, a number, a word of prose.    *)
(* Python's None is the JSON value None below; a Python dict is a sequence *)
(* of key/value members in insertion order.                                *)
(***************************************************************************)
EXTENDS Integers, Sequences, FiniteSets, TLC

VARIABLES
    GRAMMAR_POINTS,  \* the catalog loaded at start-up (server.py:36)
    content,         \* reconciliation: completion.choices[0].message.content
    result,          \* reconciliation: what run_grammar_llm returns for it
    user_text,       \* prompt builder: argument of make_prompt
    selected_id,     \* prompt builder: argument of make_prompt
    prompt,          \* prompt builder: the lines make_prompt returns
    stage,           \* position of the pure-function harnesses
    logExists,       \* os.path.isfile(LOG_FILE)
    logFile,         \* contents of learner_logs.csv, in units written
    req,             \* per worker: the request it is handling
    pc,              \* per worker: position in the handler
    loc,             \* per worker: the handler's local variables
    resp,            \* per worker: the HTTP response produced
    calls,           \* per worker: remote calls made for the request
    served           \* requests received and 200 responses sent so far

vars == <<GRAMMAR_POINTS, content, result, user_text, selected_id, prompt,
          stage, logExists, logFile, req, pc, loc, resp, calls, served>>

pureVars == <<content, result, user_text, selected_id, prompt, stage>>
serverVars == <<logExists, logFile, req, pc, loc, resp, calls, served>>

-----------------------------------------------------------------------------
(* Bounds of the model *)

MaxRawLen == 5       \* longest enumerated reply, in tokens
MaxCatalog == 2      \* most entries of an enumerated catalog
MaxTextLines == 2    \* most lines of an enumerated learner text
NumWorkers == 2      \* concurrent request handlers
MaxServed == 2       \* requests the single worker of Spec serves
RowParts == 2        \* units a data row may reach the file in

-----------------------------------------------------------------------------
(* Tokens *)

WS == {" ", "\n"}
StrTokens == {"\"score\"", "\"a\"", "\"b\"", "\"corrected\"", "\"He goes.\"",
              "\"selected_grammar_label\"", "\"transcript\""}
\* the string a string literal denotes
py_scanstring(c) ==
    CASE c = "\"score\"" -> "score"
      [] c = "\"a\"" -> "a"
      [] c = "\"b\"" -> "b"
      [] c = "\"corrected\"" -> "corrected"
      [] c = "\"He goes.\"" -> "He goes."
      [] c = "\"selected_grammar_label\"" -> "selected_grammar_label"
      [] c = "\"transcript\"" -> "transcript"

NumTokens == {"90", "1", "2"}
LitTokens == {"null", "true"}

RECURSIVE SeqsUpTo(_, _)
SeqsUpTo(S, n) ==
    IF n = 0 THEN {<<>>}
    ELSE LET shorter == SeqsUpTo(S, n - 1)
         IN  shorter \cup {Append(s, x) : s \in {t \in shorter : Len(t) = n - 1}, x \in S}

-----------------------------------------------------------------------------
(* JSON values, as json.loads builds them *)

None == [kind |-> "null", text |-> <<>>, members |-> <<>>, items |-> <<>>]
JTrue == [kind |-> "bool", text |-> <<"true">>, members |-> <<>>, items |-> <<>>]
JStr(t) == [kind |-> "str", text |-> t, members |-> <<>>, items |-> <<>>]
JNum(c) == [kind |-> "num", text |-> <<c>>, members |-> <<>>, items |-> <<>>]
JDict(m) == [kind |-> "dict", text |-> <<>>, members |-> m, items |-> <<>>]
JList(xs) == [kind |-> "list", text |-> <<>>, members |-> <<>>, items |-> xs]

HasKey(d, k) == \E i \in 1..Len(d.members) : d.members[i].key = k

\* dict.get(k): the value stored under k, None when absent
Get(d, k) ==
    IF HasKey(d, k)
    THEN (d.members[CHOOSE i \in 1..Len(d.members) : d.members[i].key = k]).val
    ELSE None

SetItemOverwrite(d, k, v) ==
    IF HasKey(d, k)
    THEN JDict([i \in 1..Len(d.members) |->
                  IF d.members[i].key = k THEN [key |-> k, val |-> v]
                  ELSE d.members[i]])
    ELSE JDict(Append(d.members, [key |-> k, val |-> v]))

\* the mutant of SetItem: dict.setdefault, which keeps a value already there
SetItemKeep(d, k, v) ==
    IF HasKey(d, k) THEN d ELSE JDict(Append(d.members, [key |-> k, val |-> v]))

\* d[k] = v on a dict: a key already present keeps its place and takes v
SetItem(d, k, v) == SetItemOverwrite(d, k, v)

-----------------------------------------------------------------------------
(* json.loads *)

NoParse == [ok |-> FALSE, val |-> None, next |-> 0]
Parsed(v, n) == [ok |-> TRUE, val |-> v, next |-> n]

\* the first index >= i that holds no whitespace (Len(s)+1 when there is none)
RECURSIVE SkipWS(_, _)
SkipWS(s, i) == IF i <= Len(s) /\ s[i] \in WS THEN SkipWS(s, i + 1) ELSE i

RECURSIVE scan_once(_, _), JSONObject(_, _, _), JSONArray(_, _, _)

\* json.scanner: one value starting at index idx
scan_once(s, idx) ==
    IF idx > Len(s) THEN NoParse
    ELSE LET c == s[idx] IN
         CASE c \in StrTokens -> Parsed(JStr(<<py_scanstring(c)>>), idx + 1)
           [] c \in NumTokens -> Parsed(JNum(c), idx + 1)
           [] c = "null" -> Parsed(None, idx + 1)
           [] c = "true" -> Parsed(JTrue, idx + 1)
           [] c = "{" ->
                LET i == SkipWS(s, idx + 1) IN
                IF i > Len(s) THEN NoParse
                ELSE IF s[i] = "}" THEN Parsed(JDict(<<>>), i + 1)
                ELSE JSONObject(s, i, JDict(<<>>))
           [] c = "[" ->
                LET i == SkipWS(s, idx + 1) IN
                IF i > Len(s) THEN NoParse
                ELSE IF s[i] = "]" THEN Parsed(JList(<<>>), i + 1)
                ELSE JSONArray(s, i, <<>>)
           [] OTHER -> NoParse

\* json.decoder.JSONObject from a member on: "key" : value, then , or }
JSONObject(s, i, d) ==
    IF i > Len(s) \/ s[i] \notin StrTokens THEN NoParse
    ELSE LET colon == SkipWS(s, i + 1) IN
         IF colon > Len(s) \/ s[colon] # ":" THEN NoParse
         ELSE LET v == scan_once(s, SkipWS(s, colon + 1)) IN
              IF ~v.ok THEN NoParse
              ELSE LET e == SkipWS(s, v.next)
                       d2 == SetItemOverwrite(d, py_scanstring(s[i]), v.val)
                   IN  IF e > Len(s) THEN NoParse
                       ELSE IF s[e] = "}" THEN Parsed(d2, e + 1)
                       ELSE IF s[e] = "," THEN JSONObject(s, SkipWS(s, e + 1), d2)
                       ELSE NoParse

\* json.decoder.JSONArray from an element on: value, then , or ]
JSONArray(s, i, xs) ==
    LET v == scan_once(s, i) IN
    IF ~v.ok THEN NoParse
    ELSE LET e == SkipWS(s, v.next)
             xs2 == Append(xs, v.val)
         IN  IF e > Len(s) THEN NoParse
             ELSE IF s[e] = "]" THEN Parsed(JList(xs2), e + 1)
             ELSE IF s[e] = "," THEN JSONArray(s, SkipWS(s, e + 1), xs2)
             ELSE NoParse

\* json.loads(s): one value, whitespace around it, nothing else ("Extra data")
json_loads(s) ==
    LET v == scan_once(s, SkipWS(s, 1)) IN
    IF v.ok /\ SkipWS(s, v.next) = Len(s) + 1 THEN [ok |-> TRUE, val |-> v.val]
    ELSE [ok |-> FALSE, val |-> None]

-----------------------------------------------------------------------------
(* str.strip, str.find, str.rfind *)

RECURSIVE lstrip(_), rstrip(_)
lstrip(s) == IF s # <<>> /\ Head(s) \in WS THEN lstrip(Tail(s)) ELSE s
rstrip(s) == IF s # <<>> /\ s[Len(s)] \in WS THEN rstrip(SubSeq(s, 1, Len(s) - 1)) ELSE s
strip(s) == rstrip(lstrip(s))

\* 0-based index of the first c at or after 0-based position i, -1 when none
RECURSIVE find_from(_, _, _)
find_from(s, c, i) ==
    IF i >= Len(s) THEN -1
    ELSE IF s[i + 1] = c THEN i
    ELSE find_from(s, c, i + 1)

find(s, c) == find_from(s, c, 0)

\* 0-based index of the last c at or before 0-based position i, -1 when none
RECURSIVE rfind_from(_, _, _)
rfind_from(s, c, i) ==
    IF i < 0 THEN -1
    ELSE IF s[i + 1] = c THEN i
    ELSE rfind_from(s, c, i - 1)

rfind(s, c) == rfind_from(s, c, Len(s) - 1)

\* the Python slice s[a:b] for 0 <= a, 0 <= b
Slice(s, a, b) == SubSeq(s, a + 1, IF b > Len(s) THEN Len(s) ELSE b)

-----------------------------------------------------------------------------
(* run_grammar_llm, lines 131-144: the reconciliation of the reply *)

ErrorResult(msg, raw) ==
    JDict(<<[key |-> "error", val |-> JStr(<<msg>>)],
            [key |-> "raw", val |-> JStr(raw)]>>)

\* the mutant of reconcile_raw: the slice ends at the first "}" , not the last
reconcile_first_close(raw) ==
    LET whole == json_loads(raw) IN
    IF whole.ok THEN whole.val
    ELSE LET start == find(raw, "{")
             end == find(raw, "}")
         IN  IF start # -1 /\ end # -1
             THEN LET part == json_loads(Slice(raw, start, end + 1)) IN
                  IF part.ok THEN part.val
                  ELSE ErrorResult("Could not parse GPT response", raw)
             ELSE ErrorResult("Invalid response", raw)

reconcile_raw(raw) ==
    LET whole == json_loads(raw) IN
    IF whole.ok THEN whole.val
    ELSE LET start == find(raw, "{")
             end == rfind(raw, "}")
         IN  IF start # -1 /\ end # -1
             THEN LET part == json_loads(Slice(raw, start, end + 1)) IN
                  IF part.ok THEN part.val
                  ELSE ErrorResult("Could not parse GPT response", raw)
             ELSE ErrorResult("Invalid response", raw)

\* raw = completion.choices[0].message.content.strip(), then the fallback
reconcile(message_content) == reconcile_raw(strip(message_content))

-----------------------------------------------------------------------------
(* The prompt builder.  A text is a non-empty sequence of lines and a line *)
(* a sequence of tokens; the empty string is the text with one empty line. *)

EmptyText == << <<>> >>
Line(tok) == << <<tok>> >>

\* string concatenation: the last line of a runs on into the first line of b
Cat(a, b) ==
    SubSeq(a, 1, Len(a) - 1) \o << a[Len(a)] \o b[1] >> \o SubSeq(b, 2, Len(b))

RECURSIVE CatAll(_)
CatAll(parts) == IF parts = <<>> THEN EmptyText ELSE Cat(Head(parts), CatAll(Tail(parts)))

NL == << <<>>, <<>> >>      \* the string "\n"

\* "\n".join(texts)
RECURSIVE join_lines(_)
join_lines(texts) ==
    IF texts = <<>> THEN EmptyText
    ELSE IF Len(texts) = 1 THEN texts[1]
    ELSE CatAll(<<texts[1], NL, join_lines(Tail(texts))>>)

\* str(n) for the small integers that catalog and focus ids are drawn from
Digits == <<"0", "1", "2", "3", "4", "5", "6", "7", "8", "9">>
str(n) == Digits[n + 1]

\* f"{p['id']}. {p['title']} - {p['rule']} Example: {p['example']}"
point_line(p) == << <<str(p.id), ". ", p.title, " - ", p.rule, " Example: ", p.example>> >>

grammar_points_block_of(points) ==
    join_lines([i \in 1..Len(points) |-> point_line(points[i])])

grammar_points_block == grammar_points_block_of(GRAMMAR_POINTS)

\* Python's None for the Optional[int] argument
NoId == -1

\* next((p for p in GRAMMAR_POINTS if p["id"] == id), None): 0 when no entry has the id
find_point(points, id) ==
    IF \E i \in 1..Len(points) : points[i].id = id
    THEN CHOOSE i \in 1..Len(points) :
            /\ points[i].id = id
            /\ \A j \in 1..(i - 1) : points[j].id # id
    ELSE 0

\* lines 48-52
selected_block(points, sel) ==
    IF sel # NoId /\ sel # 0
    THEN LET i == find_point(points, sel) IN
         IF i # 0
         THEN Cat(NL, << <<"Focus on grammar point #", str(points[i].id), ": ", points[i].title>> >>)
         ELSE EmptyText
    ELSE EmptyText

PromptHead ==
    << <<>>,
       <<"You are an ESL grammar coach. Analyze the learner's sentence (always assume it should be English).">>,
       <<"Reply ONLY in valid JSON with:">>,
       <<"- corrected: string">>,
       <<"- explanation: string (simple explanation for learner)">>,
       <<"- grammar_ok: boolean">>,
       <<"- score: integer 0-100">>,
       <<"- matched_grammar_id: integer 1-70">>,
       <<"- matched_grammar_label: string">>,
       <<>>,
       <<"Grammar Points:">>,
       <<>> >>

PromptMid ==
    << <<>>, <<>>, <<"Learner sentence (English only expected):">>, <<"\"\"\"">> >>

PromptTail == << <<"\"\"\"">>, <<>> >>

\* the mutant of make_prompt_of: the catalog block is listed in reverse order
make_prompt_reversed(points, text, sel) ==
    CatAll(<<PromptHead,
             grammar_points_block_of([i \in 1..Len(points) |-> points[Len(points) + 1 - i]]),
             NL, selected_block(points, sel), PromptMid, text, PromptTail>>)

\* lines 54-70
make_prompt_of(points, text, sel) ==
    CatAll(<<PromptHead, grammar_points_block_of(points), NL,
             selected_block(points, sel), PromptMid, text, PromptTail>>)

make_prompt(text, sel) == make_prompt_of(GRAMMAR_POINTS, text, sel)

-----------------------------------------------------------------------------
(* Inputs of the pure-function harnesses *)

Alphabet == {"{", "}", ":", " ", "\"score\"", "90", "Sure"}

\* the replies of the specification's section 8, and a few more shapes
Examples ==
    { <<"{", "\"score\"", ":", " ", "90", "}">>,
      <<"Sure", " ", "{", "\"score\"", ":", " ", "90", "}", " ", "Thanks">>,
      <<"no json here">>,
      <<"{", "\"score\"", ":", " ", "90">>,
      <<"{", "\"a\"", ":", "1", "}", " ", "and", " ", "{", "\"b\"", ":", "2", "}">>,
      <<"\n", "{", "\"a\"", ":", "{", "\"b\"", ":", "2", "}", "}", "\n">>,
      <<"x", "{", "\"a\"", ":", "{", "\"b\"", ":", "2", "}", "}", "x">>,
      <<"[", "{", "\"a\"", ":", "1", "}", "]">>,
      <<"[", "1", ",", "2", "]">>,
      <<"{", "\"a\"", ":", "1", ",", "\"a\"", ":", "2", "}">>,
      <<"{", "\"a\"", ":", "1", ",", "}">>,
      <<"{", "\"a\"", ":", "1", ",", "\"b\"", ":", "true", "}", " ", "}">>,
      <<"null">> }

RawReplies == SeqsUpTo(Alphabet, MaxRawLen) \cup Examples

CatalogIds == {1, 2, 3}
Titles == {"Present Simple", "Articles"}
Points == [id : CatalogIds, title : Titles, rule : {"R"}, example : {"E"}]

\* catalogs: any order, ids unique (positive integers, as the data model says)
Catalogs ==
    {c \in SeqsUpTo(Points, MaxCatalog) :
        \A i, j \in 1..Len(c) : i # j => c[i].id # c[j].id}

FocusIds == {NoId, 0, 1, 2, 4}

\* the catalogs the server specifications start from
ServerCatalogs ==
    { <<>>,
      <<[id |-> 2, title |-> "Articles", rule |-> "R", example |-> "E"],
        [id |-> 1, title |-> "Present Simple", rule |-> "R", example |-> "E"]>>,
      <<[id |-> 3, title |-> "Articles", rule |-> "R", example |-> "E"]>> }

LearnerLines ==
    { <<"He go to school.">>, <<"Grammar Points:">>,
      <<"1", ". ", "Articles", " - ", "R", " Example: ", "E">> }
LearnerTexts == SeqsUpTo(LearnerLines, MaxTextLines) \ {<<>>}

-----------------------------------------------------------------------------
(* The server: requests, workers, the audit log *)

Workers == 1..NumWorkers

AsciiDigits == {"0", "1", "2", "3", "4", "5", "6", "7", "8", "9"}
\* characters such as U+00B2 for which str.isdigit() is true and int() raises
OtherDigits == {"SUPERSCRIPT TWO"}

isdigit(s) == s # <<>> /\ \A i \in 1..Len(s) : s[i] \in AsciiDigits \cup OtherDigits

int_raises(s) == \E i \in 1..Len(s) : s[i] \notin AsciiDigits

RECURSIVE int(_)
int(s) ==
    IF s = <<>> THEN 0
    ELSE 10 * int(SubSeq(s, 1, Len(s) - 1))
         + (CHOOSE n \in 0..9 : Digits[n + 1] = s[Len(s)])

ErrorBody(msg) == JDict(<<[key |-> "error", val |-> JStr(<<msg>>)]>>)
NoResponse == [status |-> 0, body |-> None]
Response(status, body) == [status |-> status, body |-> body]

\* an exception that leaves the view function: Flask answers 500
Unhandled(exc) == Response(500, JStr(<<exc>>))

NoRequest ==
    [route |-> "none", learner_id |-> <<>>, grammar_id |-> <<>>, typed |-> <<>>,
     audio |-> "absent", no |-> 0]

FormRequests ==
    [route : {"text", "grammar"},
     learner_id : {<<"7", " ">>, <<"abc">>, <<>>},
     grammar_id : {<<"1">>, <<"3">>, <<"x">>, <<"SUPERSCRIPT TWO">>},
     typed : {<<" ">>, <<"He", " ", "go", " ">>},
     audio : {"absent", "empty", "speech"}]

\* /api/text has no audio field
AllRequests == {r \in FormRequests : r.route = "text" => r.audio = "absent"}

\* the valid requests the concurrent specification draws from
ValidRequests ==
    {r \in AllRequests :
        /\ r.learner_id = <<"7", " ">>
        /\ r.grammar_id = <<"1">>
        /\ r.typed = <<"He", " ", "go", " ">>
        /\ r.audio = "absent"}

\* what client.chat.completions.create can return as message.content
ReplySamples ==
    { <<"{", "\"corrected\"", ":", "\"He goes.\"", ",", "\"score\"", ":", "90", "}">>,
      <<"Sure", " ", "{", "\"score\"", ":", "90", "}", " ", "Thanks">>,
      <<"{", "\"selected_grammar_label\"", ":", "\"a\"", ",", "\"transcript\"", ":", "\"b\"", "}", "\n">>,
      <<"90">>,
      <<"[", "1", "]">>,
      <<"null">>,
      <<"no json here">>,
      <<"{", "\"a\"", ":", "1", "}", " ", "and", " ", "{", "\"b\"", ":", "2", "}">> }

ConcurrentReplies ==
    { <<"{", "\"corrected\"", ":", "\"He goes.\"", ",", "\"score\"", ":", "90", "}">>,
      <<"no json here">> }

\* outcomes of the speech-to-text path (lines 102-111)
SttOutcomes ==
    { [kind |-> "save_fails", text |-> <<>>],
      [kind |-> "remote_raises", text |-> <<>>],
      [kind |-> "no_text_attr", text |-> <<>>],
      [kind |-> "text_is_none", text |-> <<>>],
      [kind |-> "text", text |-> <<" ">>],
      [kind |-> "text", text |-> <<" ", "He", " ", "go", "\n">>] }

SttFailures == {"save_fails", "remote_raises", "text_is_none", "no_text_attr"}

\* the mutant of transcribe_audio_to_text: only the remote call is guarded
transcribe_unguarded_save(outcome) ==
    CASE outcome.kind = "save_fails" -> [raised |-> TRUE, text |-> <<>>, remote |-> 0]
      [] outcome.kind \in {"remote_raises", "text_is_none", "no_text_attr"} ->
            [raised |-> FALSE, text |-> <<>>, remote |-> 1]
      [] OTHER -> [raised |-> FALSE, text |-> strip(outcome.text), remote |-> 1]

\* lines 101-114, for a file_storage that is not None: every exception of
\* the try block ends in return ""
transcribe_audio_to_text(outcome) ==
    CASE outcome.kind = "save_fails" -> [raised |-> FALSE, text |-> <<>>, remote |-> 0]
      [] outcome.kind \in {"remote_raises", "text_is_none", "no_text_attr"} ->
            [raised |-> FALSE, text |-> <<>>, remote |-> 1]
      [] OTHER -> [raised |-> FALSE, text |-> strip(outcome.text), remote |-> 1]

\* the mutant of text_validation: the test on typed is missing
text_validation_no_typed(learner_id, grammar_id, typed) ==
    IF ~isdigit(learner_id) THEN "Learner ID (numbers only) is required."
    ELSE IF ~isdigit(grammar_id) THEN "Grammar point selection is required."
    ELSE ""

\* api_text, lines 163-168: the message of the 400 response, "" when valid
text_validation(learner_id, grammar_id, typed) ==
    IF ~isdigit(learner_id) THEN "Learner ID (numbers only) is required."
    ELSE IF ~isdigit(grammar_id) THEN "Grammar point selection is required."
    ELSE IF typed = <<>> THEN "No text provided."
    ELSE ""

\* api_grammar, lines 186-189
grammar_validation(learner_id, grammar_id) ==
    IF ~isdigit(learner_id) THEN "Learner ID (numbers only) is required."
    ELSE IF ~isdigit(grammar_id) THEN "Grammar point selection is required."
    ELSE ""

\* the mutant of llm_error: the failure is swallowed into an error-shaped result
llm_error_swallowed(exc) == Response(200, ErrorResult("Invalid response", <<>>))

\* lines 122-129: nothing catches what client.chat.completions.create raises
llm_error(exc) == Unhandled(exc)

\* next((p["title"] for p in GRAMMAR_POINTS if p["id"] == sel_id), None)
selected_grammar_label(points, sel_id) ==
    LET i == find_point(points, sel_id) IN
    IF i = 0 THEN None ELSE JStr(<<points[i].title>>)

\* save_log, lines 78-87
log_row(learner_id, data) ==
    [learner_id |-> JStr(learner_id),
     transcript |-> Get(data, "transcript"),
     correction |-> Get(data, "corrected"),
     explanation |-> Get(data, "explanation"),
     score |-> Get(data, "score"),
     grammar_point |-> Get(data, "matched_grammar_label"),
     selected_point |-> Get(data, "selected_grammar_label")]

\* writer.writeheader(): the field names
HeaderRow ==
    [learner_id |-> JStr(<<"learner_id">>),
     transcript |-> JStr(<<"transcript">>),
     correction |-> JStr(<<"correction">>),
     explanation |-> JStr(<<"explanation">>),
     score |-> JStr(<<"score">>),
     grammar_point |-> JStr(<<"grammar_point">>),
     selected_point |-> JStr(<<"selected_point">>)]

HeaderUnit(n) == [by |-> n, kind |-> "header", part |-> 1, data |-> HeaderRow]
RECURSIVE RowUnitsFrom(_, _, _)
RowUnitsFrom(n, row, i) ==
    IF i > RowParts THEN <<>>
    ELSE <<[by |-> n, kind |-> "row", part |-> i, data |-> row]>> \o RowUnitsFrom(n, row, i + 1)
RowUnits(n, row) == RowUnitsFrom(n, row, 1)

NoLocals ==
    [transcript |-> <<>>, sel_id |-> 0, prompt |-> EmptyText, out |-> None, llm |-> "none",
     stt |-> "none", file_exists |-> FALSE, buf |-> <<>>,
     log0 |-> [exists |-> FALSE, file |-> <<>>]]

NoCalls == [stt |-> 0, llm |-> 0]

\* the log an earlier run of the server left: a header and one row
EarlierLog ==
    <<HeaderUnit(0)>>
    \o RowUnits(0, log_row(<<"7">>,
                           SetItem(SetItem(ErrorResult("Invalid response", <<"no json here">>),
                                           "transcript", JStr(<<"He", " ", "go">>)),
                                   "selected_grammar_label", None)))

ServerInit ==
    /\ logExists \in BOOLEAN
    /\ logFile = IF logExists THEN EarlierLog ELSE <<>>
    /\ req = [w \in Workers |-> NoRequest]
    /\ pc = [w \in Workers |-> "idle"]
    /\ loc = [w \in Workers |-> NoLocals]
    /\ resp = [w \in Workers |-> NoResponse]
    /\ calls = [w \in Workers |-> NoCalls]
    /\ served = [received |-> 0, completed |-> 0]

PureIdle ==
    /\ content = <<>>
    /\ result = None
    /\ user_text = EmptyText
    /\ selected_id = NoId
    /\ prompt = EmptyText

-----------------------------------------------------------------------------
(* The request handlers.  A handler runs atomically up to each point where *)
(* it waits for a remote call or touches the log file.                     *)

Finish(w, response) ==
    /\ pc' = [pc EXCEPT ![w] = "done"]
    /\ resp' = [resp EXCEPT ![w] = response]
    /\ served' = [received |-> served.received + 1, completed |-> served.completed]

\* sel_id = int(grammar_id), then run_grammar_llm builds the prompt (line 120)
\* and the handler waits for the completion
ToLlm(w, grammar_id, transcript, locals) ==
    IF int_raises(grammar_id)
    THEN /\ Finish(w, Unhandled("ValueError"))
         /\ loc' = [loc EXCEPT ![w] = locals]
    ELSE /\ pc' = [pc EXCEPT ![w] = "llm"]
         /\ resp' = [resp EXCEPT ![w] = NoResponse]
         /\ served' = [received |-> served.received + 1, completed |-> served.completed]
         /\ loc' = [loc EXCEPT ![w] =
                      [locals EXCEPT !.transcript = transcript,
                                     !.sel_id = int(grammar_id),
                                     !.prompt = make_prompt(<<transcript>>, int(grammar_id))]]

\* api_text, lines 159-171, and api_grammar, lines 183-199 up to the remote call
Receive(w, r) ==
    /\ pc[w] \in {"idle", "done"}
    /\ LET learner_id == strip(r.learner_id)
           grammar_id == strip(r.grammar_id)
           typed == strip(r.typed)
           locals == [NoLocals EXCEPT !.log0 = [exists |-> logExists, file |-> logFile]]
           msg == IF r.route = "text"
                  THEN text_validation(learner_id, grammar_id, typed)
                  ELSE grammar_validation(learner_id, grammar_id)
       IN  /\ req' = [req EXCEPT ![w] =
                        [route |-> r.route, learner_id |-> r.learner_id,
                         grammar_id |-> r.grammar_id, typed |-> r.typed,
                         audio |-> r.audio, no |-> served.received + 1]]
           /\ calls' = [calls EXCEPT ![w] = NoCalls]
           /\ IF msg # ""
              THEN /\ Finish(w, Response(400, ErrorBody(msg)))
                   /\ loc' = [loc EXCEPT ![w] = locals]
              ELSE IF typed # <<>>
              THEN ToLlm(w, grammar_id, typed, locals)
              ELSE IF r.audio = "absent"
              THEN \* transcribe_audio_to_text(None) returns "" at line 100
                   /\ Finish(w, Response(400, ErrorBody("No speech or text found.")))
                   /\ loc' = [loc EXCEPT ![w] = locals]
              ELSE /\ pc' = [pc EXCEPT ![w] = "stt"]
                   /\ resp' = [resp EXCEPT ![w] = NoResponse]
                   /\ served' = [received |-> served.received + 1,
                                 completed |-> served.completed]
                   /\ loc' = [loc EXCEPT ![w] = locals]
    /\ UNCHANGED <<GRAMMAR_POINTS, pureVars, logExists, logFile>>

\* api_grammar, lines 196-201: the transcription returns
Transcribe(w) ==
    /\ pc[w] = "stt"
    /\ \E outcome \in SttOutcomes :
          LET t == transcribe_audio_to_text(outcome)
              locals == [loc[w] EXCEPT !.stt = outcome.kind, !.transcript = t.text]
          IN  /\ calls' = [calls EXCEPT ![w].stt = @ + t.remote]
              /\ IF t.raised
                 THEN /\ pc' = [pc EXCEPT ![w] = "done"]
                      /\ resp' = [resp EXCEPT ![w] = Unhandled("Exception")]
                      /\ loc' = [loc EXCEPT ![w] = locals]
                 ELSE IF t.text = <<>>
                 THEN /\ pc' = [pc EXCEPT ![w] = "done"]
                      /\ resp' = [resp EXCEPT ![w] =
                                    Response(400, ErrorBody("No speech or text found."))]
                      /\ loc' = [loc EXCEPT ![w] = locals]
                 ELSE IF int_raises(strip(req[w].grammar_id))
                 THEN /\ pc' = [pc EXCEPT ![w] = "done"]
                      /\ resp' = [resp EXCEPT ![w] = Unhandled("ValueError")]
                      /\ loc' = [loc EXCEPT ![w] = locals]
                 ELSE /\ pc' = [pc EXCEPT ![w] = "llm"]
                      /\ resp' = resp
                      /\ loc' = [loc EXCEPT ![w] =
                                   [locals EXCEPT
                                      !.sel_id = int(strip(req[w].grammar_id)),
                                      !.prompt = make_prompt(<<t.text>>,
                                                             int(strip(req[w].grammar_id)))]]
    /\ UNCHANGED <<GRAMMAR_POINTS, pureVars, logExists, logFile, req, served>>

\* run_grammar_llm raises: lines 122-129
LlmRaises(w) ==
    /\ pc[w] = "llm"
    /\ calls' = [calls EXCEPT ![w].llm = @ + 1]
    /\ loc' = [loc EXCEPT ![w].llm = "raised"]
    /\ pc' = [pc EXCEPT ![w] = "done"]
    /\ resp' = [resp EXCEPT ![w] = llm_error("APIError")]
    /\ served' = [served EXCEPT !.completed = @ + (IF resp'[w].status = 200 THEN 1 ELSE 0)]
    /\ UNCHANGED <<GRAMMAR_POINTS, pureVars, logExists, logFile, req>>

\* run_grammar_llm returns (lines 131-144), then lines 173-177 / 204-208
\* and the row of save_log (lines 78-87)
LlmReturns(w, message_content) ==
    /\ pc[w] = "llm"
    /\ calls' = [calls EXCEPT ![w].llm = @ + 1]
    /\ LET out == reconcile(message_content) IN
       IF out.kind # "dict"
       THEN \* out["transcript"] = ... on an int, a str, a list or None
            /\ loc' = [loc EXCEPT ![w].llm = "returned", ![w].out = out]
            /\ pc' = [pc EXCEPT ![w] = "done"]
            /\ resp' = [resp EXCEPT ![w] = Unhandled("TypeError")]
       ELSE LET out1 == SetItem(out, "transcript", JStr(loc[w].transcript))
                out2 == SetItem(out1, "selected_grammar_label",
                                selected_grammar_label(GRAMMAR_POINTS, loc[w].sel_id))
            IN  /\ loc' = [loc EXCEPT ![w].llm = "returned", ![w].out = out2]
                /\ pc' = [pc EXCEPT ![w] = "log_isfile"]
                /\ resp' = resp
    /\ UNCHANGED <<GRAMMAR_POINTS, pureVars, logExists, logFile, req, served>>

\* save_log, line 88: file_exists = os.path.isfile(LOG_FILE)
LogIsFile(w) ==
    /\ pc[w] = "log_isfile"
    /\ loc' = [loc EXCEPT ![w].file_exists = logExists]
    /\ pc' = [pc EXCEPT ![w] = "log_open"]
    /\ UNCHANGED <<GRAMMAR_POINTS, pureVars, logExists, logFile, req, resp, calls, served>>

\* save_log, lines 89-93: open(LOG_FILE, "a") creates the file; the header
\* and the row go to the file object's buffer
LogOpen(w) ==
    /\ pc[w] = "log_open"
    /\ logExists' = TRUE
    /\ loc' = [loc EXCEPT ![w].buf =
                 (IF loc[w].file_exists THEN <<>> ELSE <<HeaderUnit(req[w].no)>>)
                 \o RowUnits(req[w].no, log_row(strip(req[w].learner_id), loc[w].out))]
    /\ pc' = [pc EXCEPT ![w] = "log_write"]
    /\ UNCHANGED <<GRAMMAR_POINTS, pureVars, logFile, req, resp, calls, served>>

\* leaving the with block flushes the buffer.  The file object writes it
\* with as many write(2) calls as it takes (a write may take only part of
\* what it is given, and the rest is written by the next call); one call
\* appends k units atomically, and nothing keeps another handler's call
\* from coming in between.  The file is closed when the buffer is empty and
\* the handler returns jsonify(out) (lines 179, 210)
LogWrite(w, k) ==
    /\ pc[w] = "log_write"
    /\ k \in 1..Len(loc[w].buf)
    /\ logFile' = logFile \o SubSeq(loc[w].buf, 1, k)
    /\ loc' = [loc EXCEPT ![w].buf = SubSeq(@, k + 1, Len(@))]
    /\ IF k = Len(loc[w].buf)
       THEN /\ pc' = [pc EXCEPT ![w] = "done"]
            /\ resp' = [resp EXCEPT ![w] = Response(200, loc[w].out)]
            /\ served' = [served EXCEPT !.completed = @ + 1]
       ELSE UNCHANGED <<pc, resp, served>>
    /\ UNCHANGED <<GRAMMAR_POINTS, pureVars, logExists, req, calls>>

-----------------------------------------------------------------------------
(* The pure-function harnesses *)

DoReconcile ==
    /\ stage = "reconcile_call"
    /\ result' = reconcile(content)
    /\ stage' = "reconcile_done"
    /\ UNCHANGED <<GRAMMAR_POINTS, content, user_text, selected_id, prompt, serverVars>>

DoMakePrompt ==
    /\ stage = "prompt_call"
    /\ prompt' = make_prompt(user_text, selected_id)
    /\ stage' = "prompt_done"
    /\ UNCHANGED <<GRAMMAR_POINTS, content, result, user_text, selected_id, serverVars>>

-----------------------------------------------------------------------------
(* Specifications *)

\* one worker serving requests one after the other, any request
Init ==
    /\ GRAMMAR_POINTS \in ServerCatalogs
    /\ PureIdle /\ stage = "server"
    /\ ServerInit

Next ==
    \/ \E r \in AllRequests : served.received < MaxServed /\ Receive(1, r)
    \/ Transcribe(1)
    \/ LlmRaises(1)
    \/ \E c \in ReplySamples : LlmReturns(1, c)
    \/ LogIsFile(1)
    \/ LogOpen(1)
    \/ \E k \in 1..(RowParts + 1) : LogWrite(1, k)

Spec == Init /\ [][Next]_vars

\* NumWorkers workers serving one valid request each, concurrently
InitConcurrent ==
    /\ GRAMMAR_POINTS = <<[id |-> 1, title |-> "Present Simple", rule |-> "R", example |-> "E"]>>
    /\ PureIdle /\ stage = "server"
    /\ ServerInit

NextConcurrent ==
    \/ \E w \in Workers, r \in ValidRequests : pc[w] = "idle" /\ Receive(w, r)
    \/ \E w \in Workers : LlmRaises(w)
    \/ \E w \in Workers, c \in ConcurrentReplies : LlmReturns(w, c)
    \/ \E w \in Workers : LogIsFile(w)
    \/ \E w \in Workers : LogOpen(w)
    \/ \E w \in Workers, k \in 1..(RowParts + 1) : LogWrite(w, k)

SpecConcurrent == InitConcurrent /\ [][NextConcurrent]_vars

\* run_grammar_llm's reconciliation applied to every reply of RawReplies
InitReconcile ==
    /\ GRAMMAR_POINTS = <<>>
    /\ content \in RawReplies
    /\ result = None
    /\ user_text = EmptyText /\ selected_id = NoId /\ prompt = EmptyText
    /\ stage = "reconcile_call"
    /\ ServerInit /\ logExists = FALSE

NextReconcile == DoReconcile

SpecReconcile == InitReconcile /\ [][NextReconcile]_vars

\* make_prompt applied to every catalog, learner text and focus id
InitPrompt ==
    /\ GRAMMAR_POINTS \in Catalogs
    /\ content = <<>> /\ result = None
    /\ user_text \in LearnerTexts
    /\ selected_id \in FocusIds
    /\ prompt = EmptyText
    /\ stage = "prompt_call"
    /\ ServerInit /\ logExists = FALSE

NextPrompt == DoMakePrompt

SpecPrompt == InitPrompt /\ [][NextPrompt]_vars

-----------------------------------------------------------------------------
(* Properties *)

Min(S) == CHOOSE x \in S : \A y \in S : x <= y
Max(S) == CHOOSE x \in S : \A y \in S : x >= y

\* a text without its leading and trailing whitespace, by positions
Trimmed(s) ==
    LET solid == {i \in 1..Len(s) : s[i] \notin WS} IN
    IF solid = {} THEN <<>> ELSE SubSeq(s, Min(solid), Max(solid))

ScoreOnly == JDict(<<[key |-> "score", val |-> JNum("90")]>>)

\* C1: for every trimmed reply, run_grammar_llm returns the parsed value when
\* the whole reply parses; otherwise, when the reply holds a "{" and a "}",
\* the parse of the span from the first "{" to the last "}" when that
\* parses and {error: "Could not parse GPT response", raw} when it does not;
\* otherwise {error: "Invalid response", raw}; raw is the full trimmed reply.
C1_ReconcileFallback ==
    stage = "reconcile_done" =>
        LET raw == Trimmed(content)
            opens == {i \in 1..Len(raw) : raw[i] = "{"}
            closes == {i \in 1..Len(raw) : raw[i] = "}"}
        IN  /\ IF json_loads(raw).ok
               THEN result = json_loads(raw).val
               ELSE IF opens # {} /\ closes # {}
               THEN LET span == SubSeq(raw, Min(opens), Max(closes)) IN
                    IF json_loads(span).ok
                    THEN result = json_loads(span).val
                    ELSE result = ErrorResult("Could not parse GPT response", raw)
               ELSE result = ErrorResult("Invalid response", raw)
            /\ content = <<"{", "\"score\"", ":", " ", "90", "}">> => result = ScoreOnly
            /\ content = <<"Sure", " ", "{", "\"score\"", ":", " ", "90", "}", " ", "Thanks">>
                  => result = ScoreOnly
            /\ content = <<"no json here">>
                  => result = ErrorResult("Invalid response", <<"no json here">>)
            /\ content = <<"{", "\"score\"", ":", " ", "90">>
                  => result = ErrorResult("Invalid response", content)
            /\ content = <<"{", "\"a\"", ":", "1", "}", " ", "and", " ", "{", "\"b\"", ":", "2", "}">>
                  => result = ErrorResult("Could not parse GPT response", content)

\* the two-object reply has gone through the slice and its failed parse
C1_Witness ==
    /\ stage = "reconcile_done"
    /\ content = <<"{", "\"a\"", ":", "1", "}", " ", "and", " ", "{", "\"b\"", ":", "2", "}">>
    /\ Get(result, "error") = JStr(<<"Could not parse GPT response">>)

\* C2: every reply the evaluation call returns without raising ends the
\* request with a 200 response whose body is a result object.
C2_ReplyNeverFails ==
    \A w \in Workers :
        (pc[w] = "done" /\ loc[w].llm = "returned") =>
            (resp[w].status = 200 /\ resp[w].body.kind = "dict")

\* the units of the log that are data rows' first parts
RowStarts == {i \in 1..Len(logFile) : logFile[i].kind = "row" /\ logFile[i].part = 1}

\* those written by the requests of this run
NewRowStarts == {i \in RowStarts : logFile[i].by > 0}

\* the row begun at unit i is whole: its parts follow one another in the file
Intact(i) ==
    \A k \in 1..(RowParts - 1) :
        /\ i + k <= Len(logFile)
        /\ logFile[i + k].kind = "row"
        /\ logFile[i + k].by = logFile[i].by
        /\ logFile[i + k].part = k + 1

\* C3: when the workers are done the log holds one whole data row for each
\* 200 response, and at no time is a row's unit followed by a unit of
\* another request's append before the row is complete.
C3_ExactlyOneWholeRowEach ==
    /\ \A i \in 1..(Len(logFile) - 1) :
          (logFile[i].kind = "row" /\ logFile[i].part < RowParts) =>
              (/\ logFile[i + 1].kind = "row"
               /\ logFile[i + 1].by = logFile[i].by
               /\ logFile[i + 1].part = logFile[i].part + 1)
    /\ (\A w \in Workers : pc[w] \in {"idle", "done"}) =>
          /\ Cardinality(NewRowStarts) = served.completed
          /\ \A i \in RowStarts : Intact(i)

\* C4: the log holds at most one header row, and the header is the first
\* row of a log that is not empty.
C4_OneHeaderFirst ==
    /\ Cardinality({i \in 1..Len(logFile) : logFile[i].kind = "header"}) <= 1
    /\ logFile # <<>> => logFile[1].kind = "header"

IsError(response, status, msg) ==
    response.status = status /\ response.body = ErrorBody(msg)

\* C5: a request rejected by validation gets the 400 response of its case,
\* and a request that ends in 400 leaves the log as it was when the request
\* arrived and makes no evaluation call.
C5_RejectedLeavesLog ==
    \A w \in Workers :
        pc[w] = "done" =>
            LET lid == Trimmed(req[w].learner_id)
                gid == Trimmed(req[w].grammar_id)
                typed == Trimmed(req[w].typed)
            IN  /\ ~isdigit(lid) =>
                      IsError(resp[w], 400, "Learner ID (numbers only) is required.")
                /\ (isdigit(lid) /\ ~isdigit(gid)) =>
                      IsError(resp[w], 400, "Grammar point selection is required.")
                /\ (isdigit(lid) /\ isdigit(gid) /\ typed = <<>> /\ req[w].route = "text") =>
                      IsError(resp[w], 400, "No text provided.")
                /\ (isdigit(lid) /\ isdigit(gid) /\ typed = <<>> /\ req[w].route = "grammar"
                      /\ req[w].audio = "absent") =>
                      IsError(resp[w], 400, "No speech or text found.")
                /\ resp[w].status = 400 =>
                      /\ logFile = loc[w].log0.file
                      /\ logExists = loc[w].log0.exists
                      /\ calls[w].llm = 0

\* /api/grammar, numeric ids, no typed text, no audio field, a log that holds
\* rows of an earlier request: rejected
C5_Witness ==
    /\ pc[1] = "done"
    /\ req[1].route = "grammar" /\ req[1].audio = "absent" /\ req[1].typed = <<" ">>
    /\ isdigit(strip(req[1].learner_id)) /\ isdigit(strip(req[1].grammar_id))
    /\ IsError(resp[1], 400, "No speech or text found.")
    /\ RowStarts # {}

\* C6: every payload produced after evaluation holds the key
\* selected_grammar_label, with the title of the catalog entry whose id is the
\* requested grammar id, or null when there is none; a request whose
\* evaluation gave a result object never fails.
C6_SelectedLabel ==
    \A w \in Workers :
        /\ (pc[w] \in {"log_isfile", "log_open", "log_write"} \/ resp[w].status = 200) =>
              LET payload == IF resp[w].status = 200 THEN resp[w].body ELSE loc[w].out
                  sel == int(Trimmed(req[w].grammar_id))
                  hits == {i \in 1..Len(GRAMMAR_POINTS) : GRAMMAR_POINTS[i].id = sel}
              IN  /\ HasKey(payload, "selected_grammar_label")
                  /\ Cardinality({i \in 1..Len(payload.members) :
                                    payload.members[i].key = "selected_grammar_label"}) = 1
                  /\ IF hits = {}
                     THEN Get(payload, "selected_grammar_label") = None
                     ELSE \E i \in hits :
                            Get(payload, "selected_grammar_label") = JStr(<<GRAMMAR_POINTS[i].title>>)
        /\ resp[w].status = 500 => loc[w].out.kind # "dict"

\* an error-shaped payload for a grammar id no catalog entry has
C6_Witness ==
    /\ resp[1].status = 200
    /\ HasKey(resp[1].body, "error")
    /\ HasKey(resp[1].body, "selected_grammar_label")
    /\ Get(resp[1].body, "selected_grammar_label") = None
    /\ GRAMMAR_POINTS # <<>>

\* C7: when the evaluation call raises, the request ends with a 500 response
\* after that one call: no retry, no 200 body, no log row.
C7_EvaluationErrorFails ==
    \A w \in Workers :
        loc[w].llm = "raised" =>
            /\ pc[w] = "done"
            /\ resp[w].status = 500
            /\ calls[w].llm = 1
            /\ logFile = loc[w].log0.file

\* the evaluation call raised for a request whose text came from the audio
C7_Witness ==
    /\ loc[1].llm = "raised"
    /\ resp[1].status = 500
    /\ calls[1].stt = 1

\* C8: when saving the audio or the speech-to-text call fails, the
\* transcript is empty, nothing is raised, and the request ends with the 400
\* "No speech or text found." response without an evaluation call.
C8_TranscriptionFailOpen ==
    \A w \in Workers :
        loc[w].stt \in SttFailures =>
            /\ pc[w] = "done"
            /\ loc[w].transcript = <<>>
            /\ IsError(resp[w], 400, "No speech or text found.")
            /\ calls[w].llm = 0

\* the temporary file could not be written
C8_Witness ==
    /\ loc[1].stt = "save_fails"
    /\ req[1].audio = "speech"
    /\ resp[1].status = 400

\* C9: the speech-to-text capability is not called for a request whose audio
\* is missing or has no bytes.
C9_NoCallWithoutAudio ==
    \A w \in Workers :
        req[w].audio \in {"absent", "empty"} => calls[w].stt = 0

FirstLine(text, line) == Min({i \in 1..Len(text) : text[i] = line})

\* C10: the prompt lists the catalog, one line per entry in catalog order and
\* each entry once, after the "Grammar Points:" line; the focus directive
\* follows exactly when the focus id is the id of an entry; with a focus id
\* that no entry has the prompt is the prompt built without a focus id.
C10_PromptListsCatalog ==
    stage = "prompt_done" =>
        LET n == Len(GRAMMAR_POINTS)
            gp == FirstLine(prompt, <<"Grammar Points:">>)
            ls == FirstLine(prompt, <<"Learner sentence (English only expected):">>)
            after == gp + (IF n = 0 THEN 1 ELSE n) + 1
            hits == {i \in 1..n : GRAMMAR_POINTS[i].id = selected_id}
            entry(i) == <<Digits[GRAMMAR_POINTS[i].id + 1], ". ", GRAMMAR_POINTS[i].title,
                          " - ", GRAMMAR_POINTS[i].rule, " Example: ", GRAMMAR_POINTS[i].example>>
        IN  /\ \A i \in 1..n : prompt[gp + i] = entry(i)
            /\ \A i \in 1..n :
                  Cardinality({j \in (gp + 1)..(ls - 1) : prompt[j] = entry(i)}) = 1
            /\ prompt[after] = <<>>
            /\ IF hits # {}
               THEN /\ \E i \in hits :
                         prompt[after + 1] = <<"Focus on grammar point #",
                                               Digits[GRAMMAR_POINTS[i].id + 1], ": ",
                                               GRAMMAR_POINTS[i].title>>
                    /\ ls = after + 3
               ELSE /\ ls = after + 2
                    /\ prompt = make_prompt(user_text, NoId)
            /\ \A j \in (gp + 1)..(ls - 1) :
                  (prompt[j] # <<>> /\ prompt[j][1] = "Focus on grammar point #") => hits # {}

\* a catalog that is not in id order, and a focus id that the second entry has
C10_Witness ==
    /\ stage = "prompt_done"
    /\ Len(GRAMMAR_POINTS) = 2
    /\ GRAMMAR_POINTS[1].id > GRAMMAR_POINTS[2].id
    /\ selected_id = GRAMMAR_POINTS[2].id
    /\ Len(user_text) = 2
    /\ \E j \in 1..Len(prompt) :
          prompt[j] = <<"Focus on grammar point #", str(selected_id), ": ", GRAMMAR_POINTS[2].title>>

====
